---- MODULE Spec2Model ----
(***************************************************************************)
(* A model of mcp_helper.py: the MCP JSON-RPC request router, the tool     *)
(* registry, the four BigQuery tool handlers and the SQL review pipeline.  *)
(*                                                                         *)
(* The server keeps no state between requests, so one step of the model is *)
(* one call of handle_request: the request (method, params) and the        *)
(* answers of the external collaborators (warehouse client, text           *)
(* generation API, process environment) are the inputs of the step, and    *)
(* the variables record what the call did: its response, the handler it    *)
(* invoked, the collaborator calls it made in order, and the values the    *)
(* review pipeline produced on the way.                                    *)
(*                                                                         *)
(* Texts are sequences of tokens (strings).  A text built by an f-string   *)
(* is the sequence of its literal chunks and embedded values.              *)
(***************************************************************************)
EXTENDS Integers, Sequences, FiniteSets, TLC

VARIABLES method, params, env, response, invoked, calls, review, estimate

vars == <<method, params, env, response, invoked, calls, review, estimate>>

(***************************************************************************)
(* Bounds of the model.                                                    *)
(***************************************************************************)
\* largest number of keys of an argument object
MaxArgKeys == 2
\* longest arbitrary (not produced by json.dumps) argument string, in tokens
MaxRawLen == 3
\* most datasets the project holds, most tables a dataset holds
MaxDatasets == 2
MaxTables == 1

(***************************************************************************)
(* Python values.                                                          *)
(***************************************************************************)
\* Python's None, as dict.get returns it for a missing key
None == "<None>"

\* `not v` for a value that is None or a str
Falsy(v) == v = None \/ v = ""

Range(s) == {s[i] : i \in 1..Len(s)}

\* the keys tool arguments are read under, in the order json.dumps emits them
KeyOrder == <<"query", "table_id", "question", "sql_query", "confirmation_key">>
Keys == Range(KeyOrder)

\* argument values: the empty string and one example per key
ExampleValue(k) ==
    CASE k = "query" -> "list my datasets"
      [] k = "table_id" -> "proj.ds.users"
      [] k = "question" -> "how many users"
      [] k = "sql_query" -> "SELECT 1"
      [] k = "confirmation_key" -> "x"

ObjectsOver(S) == {o \in [S -> {""} \cup {ExampleValue(k) : k \in S}] :
                      \A k \in S : o[k] \in {"", ExampleValue(k)}}

ArgObjects ==
    UNION {ObjectsOver(S) : S \in {T \in SUBSET Keys : Cardinality(T) <= MaxArgKeys}}

EmptyObject == [k \in {} |-> ""]

\* a Python value that is a dict or a str
PyDict(o) == [kind |-> "dict", obj |-> o, text |-> <<>>]
PyStr(t) == [kind |-> "str", obj |-> EmptyObject, text |-> t]

\* dict.get(k)
Get(o, k) == IF k \in DOMAIN o THEN o[k] ELSE None

(***************************************************************************)
(* JSON texts: token sequences over the punctuation of JSON and quoted     *)
(* string literals.  The model covers the JSON an argument object needs:   *)
(* string values and objects whose members are strings.                    *)
(***************************************************************************)
Quote(s) == "\"" \o s \o "\""

Strings == {""} \cup {ExampleValue(k) : k \in Keys} \cup Keys

IsLiteral(tok) == \E s \in Strings : Quote(s) = tok
Unquote(tok) == CHOOSE s \in Strings : Quote(s) = tok

RECURSIVE DumpMembers(_, _, _)
DumpMembers(o, i, first) ==
    IF i > Len(KeyOrder) THEN <<>>
    ELSE IF KeyOrder[i] \in DOMAIN o
         THEN (IF first THEN <<>> ELSE <<",">>)
                \o <<Quote(KeyOrder[i]), ":", Quote(o[KeyOrder[i]])>>
                \o DumpMembers(o, i + 1, FALSE)
         ELSE DumpMembers(o, i + 1, first)

\* json.dumps of an argument object (what a client sends as a string)
JsonDumps(o) == <<"{">> \o DumpMembers(o, 1, TRUE) \o <<"}">>

DecodeError == [ok |-> FALSE, value |-> PyStr(<<>>)]
Decoded(v) == [ok |-> TRUE, value |-> v]

\* members of an object from token i on: "k" : "v" then , or }.  A repeated
\* key keeps its last value, as json.loads does.
RECURSIVE LoadMembers(_, _, _)
LoadMembers(t, i, acc) ==
    IF i + 3 > Len(t) THEN DecodeError
    ELSE IF ~(IsLiteral(t[i]) /\ t[i + 1] = ":" /\ IsLiteral(t[i + 2])) THEN DecodeError
    ELSE LET acc2 == (Unquote(t[i]) :> Unquote(t[i + 2])) @@ acc
         IN  IF t[i + 3] = "}" THEN (IF i + 3 = Len(t) THEN Decoded(PyDict(acc2))
                                     ELSE DecodeError)
             ELSE IF t[i + 3] = "," THEN LoadMembers(t, i + 4, acc2)
             ELSE DecodeError

\* json.loads: the decoded value, or the failure json.loads raises
JsonLoads(t) ==
    IF Len(t) = 1 /\ IsLiteral(t[1]) THEN Decoded(PyStr(<<Unquote(t[1])>>))
    ELSE IF Len(t) = 2 /\ t[1] = "{" /\ t[2] = "}" THEN Decoded(PyDict(EmptyObject))
    ELSE IF Len(t) >= 1 /\ t[1] = "{" THEN LoadMembers(t, 2, EmptyObject)
    ELSE DecodeError

(***************************************************************************)
(* What a function call yields: a returned value or a raised exception,    *)
(* with the collaborator calls made on the way and the dry-run estimate    *)
(* computed on the way (if any).                                           *)
(***************************************************************************)
NoReview == [sql_query |-> <<>>, user_query |-> None, status |-> "<none>"]
NoEstimate == [status |-> "<none>"]

\* a returned Python value: a str, a list of schema fields, or a GeneratedQuery dict
DataStr(t) == [type |-> "str", text |-> t, schema |-> <<>>, query |-> NoReview]
DataList(sch) == [type |-> "list", text |-> <<>>, schema |-> sch, query |-> NoReview]
DataDict(q) == [type |-> "dict", text |-> <<>>, schema |-> <<>>, query |-> q]
NoData == DataStr(<<>>)

Return(data, cs, est) ==
    [raised |-> FALSE, exc |-> <<>>, data |-> data, calls |-> cs, estimate |-> est]
Raise(exc, cs, est) ==
    [raised |-> TRUE, exc |-> exc, data |-> NoData, calls |-> cs, estimate |-> est]

\* one call of an external collaborator
Call(op, arg) == [op |-> op, arg |-> arg]

RECURSIVE Flatten(_)
Flatten(ss) == IF ss = <<>> THEN <<>> ELSE Head(ss) \o Flatten(Tail(ss))

\* "\n".join(lines)
RECURSIVE Join(_)
Join(lines) ==
    IF lines = <<>> THEN <<>>
    ELSE IF Len(lines) = 1 THEN lines[1]
    ELSE lines[1] \o <<"\n">> \o Join(Tail(lines))

\* the text of a schema list inside an f-string or str(): one dict per field
FieldRepr(f) == <<"{'name': ", f.name, ", 'type': ", f.type, ", 'mode': ", f.mode, "}">>
SchemaRepr(sch) == <<"[">> \o Flatten([i \in 1..Len(sch) |-> FieldRepr(sch[i])]) \o <<"]">>

\* str(data) as handle_tool_call takes it
Str(data) ==
    CASE data.type = "str" -> data.text
      [] data.type = "list" -> SchemaRepr(data.schema)
      [] data.type = "dict" ->
            <<"{'sql_query': '">> \o data.query.sql_query
              \o <<"', 'user_query': '", data.query.user_query,
                   "', 'status': '", data.query.status, "'}">>

project_id == "INSERT_YOUR_GOOGLE_CLOUD_PROJECT_ID"

(***************************************************************************)
(* The external collaborators.  Their answers during one request are the   *)
(* record e:                                                               *)
(*   datasets_ok, datasets  client.list_datasets: raises, or the datasets; *)
(*                          a dataset's tables is the number of tables     *)
(*                          client.list_tables yields, or -1 when it raises*)
(*   table_ok, schema       client.get_table: raises, or the table schema  *)
(*   ai_key                 whether GOOGLE_AI_KEY is set                   *)
(*   gemini, sql            requests.post / the response: a transport or   *)
(*                          HTTP failure, no candidates, a candidate       *)
(*                          without the expected parts, or a candidate     *)
(*                          whose text is sql                              *)
(*   dry, gib               the dry run: succeeds with gib GiB processed,  *)
(*                          raises GoogleAPICallError, or raises another   *)
(*                          exception                                      *)
(*   run_ok, rows           the real query: raises, or yields rows         *)
(***************************************************************************)
DatasetId(i) == "dataset_" \o ToString(i)
TableId(j) == "table_" \o ToString(j)

ListingFails == -1

DatasetLists ==
    UNION {[1..n -> [dataset_id : {"?"}, tables : {ListingFails} \cup 0..MaxTables]] :
              n \in 0..MaxDatasets}

\* the datasets of a project have distinct ids: the i-th is DatasetId(i)
Datasets(ds) == [i \in 1..Len(ds) |-> [dataset_id |-> DatasetId(i), tables |-> ds[i].tables]]

Field(n, t, m) == [name |-> n, type |-> t, mode |-> m]

Schemas == {<<>>,
            <<Field("id", "INTEGER", "REQUIRED")>>,
            <<Field("id", "INTEGER", "REQUIRED"), Field("name", "STRING", "NULLABLE")>>}

SqlTexts == {"SELECT COUNT(*) FROM proj.ds.users", "SELEC * FORM users"}

GeminiOutcomes == {"request_exception", "no_candidates", "malformed", "candidate"}

DryOutcomes == {"ok", "api_error", "error"}

\* dry-run estimates, in GiB: nothing, values whose cost is not a whole number
\* of micro-dollars (among them exact halves), 1 TiB and 2 TiB
GibSamples == {0, 1, 31, 32, 33, 96, 1024, 2048}

RowSets == {<<>>, <<"1">>, <<"alice", "bob">>}

QuietEnv ==
    [datasets_ok |-> TRUE, datasets |-> <<>>, table_ok |-> TRUE, schema |-> <<>>,
     ai_key |-> TRUE, gemini |-> "no_candidates", sql |-> "", dry |-> "ok", gib |-> 0,
     run_ok |-> TRUE, rows |-> <<>>]

ListEnvs ==
    {[QuietEnv EXCEPT !.datasets_ok = FALSE]}
      \cup {[QuietEnv EXCEPT !.datasets = Datasets(ds)] : ds \in DatasetLists}

SchemaEnvs ==
    {[QuietEnv EXCEPT !.table_ok = FALSE]}
      \cup {[QuietEnv EXCEPT !.schema = sch] : sch \in Schemas}

DryEnvs(e) ==
    {[e EXCEPT !.dry = d] : d \in DryOutcomes \ {"ok"}}
      \cup {[e EXCEPT !.gib = g] : g \in GibSamples}

GenerateEnvs(e) ==
    {[e EXCEPT !.ai_key = FALSE]}
      \cup {[e EXCEPT !.gemini = g] : g \in GeminiOutcomes \ {"candidate"}}
      \cup UNION {DryEnvs([e EXCEPT !.gemini = "candidate", !.sql = q]) : q \in SqlTexts}

ReviewEnvs ==
    {[QuietEnv EXCEPT !.table_ok = FALSE]}
      \cup UNION {GenerateEnvs([QuietEnv EXCEPT !.schema = sch]) : sch \in Schemas}

RunEnvs ==
    {[QuietEnv EXCEPT !.run_ok = FALSE]}
      \cup {[QuietEnv EXCEPT !.rows = r] : r \in RowSets}

\* the answers that matter to a call of the named tool
EnvFor(name) ==
    CASE name = "get_list_of_datasets_by_project_id" -> ListEnvs
      [] name = "get_table_schema" -> SchemaEnvs
      [] name = "create_custom_sql_query_to_review" -> ReviewEnvs
      [] name = "run_sql_query" -> RunEnvs
      [] OTHER -> {QuietEnv}

(***************************************************************************)
(* BigQuery tool: get_list_of_datasets_by_project_id                       *)
(***************************************************************************)
\* the lines one dataset adds to output_lines
RECURSIVE TableLines(_, _)
TableLines(j, n) ==
    IF j > n THEN <<>> ELSE << <<"   Table: ", TableId(j)>> >> \o TableLines(j + 1, n)

DatasetLines(d) ==
    << <<"\nDataset: ", d.dataset_id>> >>
      \o (IF d.tables = ListingFails THEN << <<"   [Error listing tables: ", "<e>", "]">> >>
          ELSE IF d.tables > 0 THEN TableLines(1, d.tables)
          ELSE << <<"   (No tables in this dataset)">> >>)

RECURSIVE AllDatasetLines(_)
AllDatasetLines(ds) ==
    IF ds = <<>> THEN <<>> ELSE DatasetLines(Head(ds)) \o AllDatasetLines(Tail(ds))

\* a bug: no try/except around the table listing, so the first dataset whose
\* listing fails ends the enumeration in the outer `except`
get_list_without_inner_try(arguments, e) ==
    LET listed == <<Call("list_datasets", <<project_id>>)>>
        failing == {i \in 1..Len(e.datasets) : e.datasets[i].tables = ListingFails}
        last == IF failing = {} THEN Len(e.datasets)
                ELSE CHOOSE i \in failing : \A j \in failing : i <= j
        tablesListed == [i \in 1..last |-> Call("list_tables", <<e.datasets[i].dataset_id>>)]
        joined_data == Join(<< <<"--- Inspecting Project: ", project_id, " ---">> >>
                              \o AllDatasetLines(e.datasets))
    IN  IF ~e.datasets_ok \/ failing # {}
        THEN Return(DataStr(<<"Error accessing project '", project_id, "': ", "<e>">>),
                    listed \o tablesListed, NoEstimate)
        ELSE IF e.datasets = <<>>
        THEN Return(DataStr(<<"No datasets found in this project.">>), listed, NoEstimate)
        ELSE Return(DataStr(<<"This following datasets live in the user's Google BigQuery Account:",
                              project_id, "Here are the datasets:">>
                              \o joined_data
                              \o <<"Important: It is important that you reference this project_id (",
                                   project_id, ") when you return this data.">>),
                    listed \o tablesListed, NoEstimate)

get_list_of_datasets_by_project_id(arguments, e) ==
    LET listed == <<Call("list_datasets", <<project_id>>)>>
        tablesListed == [i \in 1..Len(e.datasets) |->
                            Call("list_tables", <<e.datasets[i].dataset_id>>)]
        output_lines == << <<"--- Inspecting Project: ", project_id, " ---">> >>
                          \o AllDatasetLines(e.datasets)
        joined_data == Join(output_lines)
        instructions ==
            <<"This following datasets live in the user's Google BigQuery Account:",
              project_id, "Here are the datasets:">>
              \o joined_data
              \o <<"Important: It is important that you reference this project_id (",
                   project_id, ") when you return this data.">>
    IN  IF ~e.datasets_ok
        THEN Return(DataStr(<<"Error accessing project '", project_id, "': ", "<e>">>),
                    listed, NoEstimate)
        ELSE IF e.datasets = <<>>
        THEN Return(DataStr(<<"No datasets found in this project.">>), listed, NoEstimate)
        ELSE Return(DataStr(instructions), listed \o tablesListed, NoEstimate)

(***************************************************************************)
(* BigQuery tool: get_table_schema                                         *)
(***************************************************************************)
\* arguments.get on a value that is not a dict
AttributeError == <<"AttributeError", "'str' object has no attribute 'get'">>

\* client.get_table raises for a table that cannot be fetched, and for an
\* identifier that is None or empty
get_table_schema(arguments, e) ==
    IF arguments.kind # "dict" THEN Raise(AttributeError, <<>>, NoEstimate)
    ELSE LET table_id == Get(arguments.obj, "table_id")
             fetched == <<Call("get_table", <<table_id>>)>>
         IN  IF Falsy(table_id) \/ ~e.table_ok
             THEN Raise(<<"get_table", "<e>">>, fetched, NoEstimate)
             ELSE Return(DataList(e.schema), fetched, NoEstimate)

(***************************************************************************)
(* BigQuery tool: run_sql_query                                            *)
(***************************************************************************)
\* df.to_string(index=False) of the rows
TableString(rows) ==
    IF rows = <<>> THEN <<"Empty DataFrame", "\n", "Columns: []", "\n", "Index: []">>
    ELSE Join([i \in 1..Len(rows) |-> <<rows[i]>>])

\* client.query raises for a statement the warehouse rejects, and for a
\* statement that is None or empty
run_sql_query_via_bq_api(arguments, e) ==
    IF arguments.kind # "dict" THEN Raise(AttributeError, <<>>, NoEstimate)
    ELSE LET sql_query == Get(arguments.obj, "sql_query")
             queried == <<Call("query", <<sql_query>>)>>
         IN  IF Falsy(sql_query) \/ ~e.run_ok
             THEN Raise(<<"query", "<e>">>, queried, NoEstimate)
             ELSE Return(DataStr(TableString(e.rows)), queried, NoEstimate)

(***************************************************************************)
(* BigQuery tool: create_custom_sql_query_to_review                        *)
(*                                                                         *)
(* Amounts: bytes_processed is carried in GiB (the dry-run estimates of    *)
(* the model are whole GiB) and estimated_cost_usd in micro-dollars, the   *)
(* six decimals round(estimated_cost, 6) keeps.  At these sizes the float  *)
(* product bytes / 1024**4 * 6.25 is exact, so round() is the exact        *)
(* round-half-to-even of Python.                                           *)
(***************************************************************************)
\* round(n / d, 0) for n >= 0, d > 0: to nearest, an exact half to even
RoundHalfEven(n, d) ==
    LET q == n \div d
        r == n % d
    IN  IF 2 * r < d THEN q
        ELSE IF 2 * r > d THEN q + 1
        ELSE IF q % 2 = 0 THEN q ELSE q + 1

\* a bug: the price per TiB before it was updated, 5 USD
EstimatedCostOldPrice(gib) == RoundHalfEven(gib * 78125, 16)

\* terabytes * price_per_tb, rounded to 6 decimals, in micro-dollars:
\* 6.25 USD per 1024 GiB is 390625 micro-dollars per 64 GiB
EstimatedCostMicroUsd(gib) == RoundHalfEven(gib * 390625, 64)

\* the CostEstimate dict, or the exception that leaves the function
Estimated(dict) == [raised |-> FALSE, value |-> dict]

\* a bug: the failure dicts are given the keys of the VALID dict, zeroed
check_query_uniform_keys(e, query_string) ==
    CASE e.dry = "ok" ->
            Estimated([status |-> "VALID",
                       message |-> "This query is valid.",
                       estimated_cost_usd |-> EstimatedCostMicroUsd(e.gib),
                       bytes_processed |-> e.gib])
      [] e.dry = "api_error" ->
            Estimated([status |-> "INVALID",
                       message |-> "The query cannot be executed.",
                       estimated_cost_usd |-> 0, bytes_processed |-> 0,
                       error_details |-> "<e.message>"])
      [] OTHER ->
            Estimated([status |-> "ERROR",
                       message |-> "An unexpected system error occurred.",
                       estimated_cost_usd |-> 0, bytes_processed |-> 0,
                       error_details |-> "<str(e)>"])

check_query_validity_and_cost(e, query_string) ==
    CASE e.dry = "ok" ->
            Estimated([status |-> "VALID",
                       message |-> "This query is valid.",
                       estimated_cost_usd |-> EstimatedCostMicroUsd(e.gib),
                       bytes_processed |-> e.gib])
      [] e.dry = "api_error" ->
            Estimated([status |-> "INVALID",
                       message |-> "The query cannot be executed.",
                       error_details |-> "<e.message>"])
      [] OTHER ->
            Estimated([status |-> "ERROR",
                       message |-> "An unexpected system error occurred.",
                       error_details |-> "<str(e)>"])

\* str() of a cost in micro-dollars, as the f-string prints the float: the
\* integer part, a point, the decimals without trailing zeros (at least one)
RECURSIVE Digits(_, _)
Digits(f, width) ==
    IF width = 0 THEN "" ELSE Digits(f \div 10, width - 1) \o ToString(f % 10)

RECURSIVE StripZeros(_, _)
StripZeros(f, width) ==
    IF width > 1 /\ f % 10 = 0 THEN StripZeros(f \div 10, width - 1) ELSE Digits(f, width)

FormatUsd(micro) ==
    ToString(micro \div 1000000) \o "." \o StripZeros(micro % 1000000, 6)

\* the text the f-string embeds for the function object generate_sql_query
FunctionRepr == "<function generate_sql_query at 0x...>"

SchemaText(sch) ==
    Join([i \in 1..Len(sch) |-> <<"- ", sch[i].name, " (", sch[i].type, ", ", sch[i].mode, ")">>])

bq_sql_gnerator_system_prompt(user_question, schema, table_id) ==
    <<"You are an expert BigQuery SQL analyst. ... Today's timestamp is: ", "<now>",
      "Schema:">>
      \o SchemaText(schema)
      \o <<"Table ID: ", table_id, "GUIDANCE: ... END OF EXAMPLE.",
           "Now produce the SQL SELECT query for this user question:", user_question,
           "The current time for this request is: ", "<now>">>

ValidatedNotice ==
    "This sql statement has been validated with the Google BigQuery QueryJobConfig method and can be executed."
CostLabel == "Estimated cost to run (USD): "
BytesLabel == "Estimated bytes processed on run: "

\* the message of the branch taken when the dry run is INVALID
InvalidMessage(question, table_schema) ==
    <<"This SQL query is not valid: ", FunctionRepr,
      "When a sql query is invalid, you can attempt to correct this query based on the user's question:",
      question,
      "This query that was generated from this table has the following schema:">>
      \o SchemaRepr(table_schema)
      \o <<"It's also recommended to let the user know that the first pass at generating the query failed">>

\* the message of the other branch; it reads both cost keys of query_status
PresentationMessage(question, table_schema, table_id, generated_sql_query, query_status) ==
    <<"This SQL statement helps pull data from the following Google BigQuery table:",
      table_id, "It helps answer the following question: ", question,
      "This table has the following schema:">>
      \o SchemaRepr(table_schema)
      \o <<"Important: Guidance for presenting this query to the user ...",
           "Here is the generated sql query:", generated_sql_query,
           "Important: Sql Validation", ValidatedNotice,
           CostLabel, FormatUsd(query_status.estimated_cost_usd),
           BytesLabel, ToString(query_status.bytes_processed)>>

GeneratedQuery(msg, question, status) ==
    [sql_query |-> msg, user_query |-> question, status |-> status]

RequestFailed == <<"Exception", "Gemini API request failed: ", "<e>">>
ProcessingFailed == <<"Exception", "Error processing Gemini API response: ", "<e>">>

generate_sql_query(question, table_schema, table_id, e) ==
    IF Falsy(question) \/ Falsy(table_id)
    THEN Raise(<<"ValueError", "question and table_id are required">>, <<>>, NoEstimate)
    ELSE IF ~e.ai_key
    THEN Raise(<<"ValueError", "GOOGLE_AI_KEY environment variable is not set">>, <<>>,
               NoEstimate)
    ELSE
    LET system_prompt == bq_sql_gnerator_system_prompt(question, table_schema, table_id)
        posted == <<Call("generate_content", system_prompt \o <<question>>)>>
        generated_sql_query == e.sql
        checked == check_query_validity_and_cost(e, generated_sql_query)
        dried == posted \o <<Call("dry_run", <<generated_sql_query>>)>>
        query_status == checked.value
    IN  CASE e.gemini = "request_exception" -> Raise(RequestFailed, posted, NoEstimate)
          [] e.gemini = "malformed" -> Raise(ProcessingFailed, posted, NoEstimate)
          [] e.gemini = "no_candidates" ->
                Return(DataDict(GeneratedQuery(<<"No results generated from Gemini API">>,
                                               question, "no_results")),
                       posted, NoEstimate)
          [] OTHER ->
                IF checked.raised THEN Raise(ProcessingFailed, dried, NoEstimate)
                ELSE IF query_status.status = "INVALID"
                THEN Return(DataDict(GeneratedQuery(InvalidMessage(question, table_schema),
                                                    question, "success")),
                            dried, query_status)
                ELSE IF {"estimated_cost_usd", "bytes_processed"} \subseteq DOMAIN query_status
                THEN Return(DataDict(GeneratedQuery(
                                PresentationMessage(question, table_schema, table_id,
                                                    generated_sql_query, query_status),
                                question, "success")),
                            dried, query_status)
                ELSE \* KeyError in the f-string, caught by `except Exception`
                     Raise(ProcessingFailed, dried, query_status)

create_custom_sql_query_to_review(arguments, e) ==
    IF arguments.kind # "dict" THEN Raise(AttributeError, <<>>, NoEstimate)
    ELSE LET question == Get(arguments.obj, "question")
             table_id == Get(arguments.obj, "table_id")
             schema == get_table_schema(PyDict([table_id |-> table_id]), e)
             sql == generate_sql_query(question, schema.data.schema, table_id, e)
         IN  IF schema.raised THEN schema
             ELSE [sql EXCEPT !.calls = schema.calls \o sql.calls]

(***************************************************************************)
(* MCP protocol handlers                                                   *)
(***************************************************************************)
NoInfo == [protocolVersion |-> "", name |-> "", version |-> "", list |-> FALSE, call |-> FALSE]

handle_initialize ==
    [protocolVersion |-> "2024-11-05", name |-> "bigquery-mcp", version |-> "0.1.0",
     list |-> TRUE, call |-> TRUE]

Descriptor(name, properties, required) ==
    [name |-> name, read_only |-> FALSE, type |-> "object", properties |-> properties,
     required |-> required, additionalProperties |-> FALSE]

handle_tools_list ==
    <<Descriptor("get_list_of_datasets_by_project_id", {"query"}, <<"query">>),
      Descriptor("get_table_schema", {"table_id"}, <<"table_id">>),
      Descriptor("create_custom_sql_query_to_review", {"question", "table_id"},
                 <<"question", "table_id">>),
      Descriptor("run_sql_query", {"sql_query", "confirmation_key"},
                 <<"sql_query", "confirmation_key">>)>>

\* params.get("arguments", {}) when the key is missing
PyAbsent == [kind |-> "absent", obj |-> EmptyObject, text |-> <<>>]

NotInvoked == [tool |-> "<none>", arguments |-> PyDict(EmptyObject)]
Invoked(tool, arguments) == [tool |-> tool, arguments |-> arguments]

NoResult == [isError |-> FALSE, text |-> <<>>]
\* {"content": [{"type": "text", "text": ...}]}: no isError key
Success(text) == [isError |-> FALSE, text |-> text]
\* a bug: the error result without its isError flag
FailureWithoutFlag(text) == [isError |-> FALSE, text |-> text]
\* {"isError": True, "content": [{"type": "text", "text": ...}]}
Failure(text) == [isError |-> TRUE, text |-> text]

\* what handle_tool_call does: the ToolCallResult it returns or the exception
\* that leaves it, the handler it invoked and what that handler did
ToolCall(raised, exc, result, inv, h) ==
    [raised |-> raised, exc |-> exc, result |-> result, invoked |-> inv,
     calls |-> h.calls, estimate |-> h.estimate,
     review |-> IF h.data.type = "dict" THEN h.data.query ELSE NoReview]

NoHandler == Return(NoData, <<>>, NoEstimate)

\* `data = handler(arguments)` then the Success result with str(data)
Dispatched(tool, arguments, h) ==
    IF h.raised THEN ToolCall(TRUE, h.exc, NoResult, Invoked(tool, arguments), h)
    ELSE ToolCall(FALSE, <<>>, Success(Str(h.data)), Invoked(tool, arguments), h)

\* a bug: string arguments are handed to the handler undecoded
PassArgumentsThrough(given) == Decoded(given)

\* `if isinstance(arguments, str): arguments = json.loads(arguments)`
DecodeArguments(given) ==
    IF given.kind = "str" THEN JsonLoads(given.text) ELSE Decoded(given)

handle_tool_call(p, e) ==
    LET tool_name == p.name
        given == IF p.arguments.kind = "absent" THEN PyDict(EmptyObject) ELSE p.arguments
        loaded == DecodeArguments(given)
        arguments == loaded.value
    IN  IF ~loaded.ok
        THEN ToolCall(FALSE, <<>>,
                      Failure(<<"Invalid arguments: expected object or JSON string.">>),
                      NotInvoked, NoHandler)
        ELSE CASE tool_name = "get_list_of_datasets_by_project_id" ->
                    Dispatched(tool_name, arguments,
                               get_list_of_datasets_by_project_id(arguments, e))
               [] tool_name = "get_table_schema" ->
                    Dispatched(tool_name, arguments, get_table_schema(arguments, e))
               [] tool_name = "create_custom_sql_query_to_review" ->
                    Dispatched(tool_name, arguments,
                               create_custom_sql_query_to_review(arguments, e))
               [] tool_name = "run_sql_query" ->
                    Dispatched(tool_name, arguments, run_sql_query_via_bq_api(arguments, e))
               [] OTHER ->
                    ToolCall(FALSE, <<>>, Failure(<<"Tool not found: ", tool_name>>),
                             NotInvoked, NoHandler)

(***************************************************************************)
(* MCP protocol request routing                                            *)
(***************************************************************************)
Response(kind, result, exc, tools, info) ==
    [kind |-> kind, isError |-> result.isError, text |-> result.text, exc |-> exc,
     tools |-> tools, info |-> info]

NoResponse == Response("none", NoResult, <<>>, <<>>, NoInfo)

Outcome(resp, inv, cs, rev, est) ==
    [response |-> resp, invoked |-> inv, calls |-> cs, review |-> rev, estimate |-> est]

Quiet(resp) == Outcome(resp, NotInvoked, <<>>, NoReview, NoEstimate)

handle_request(m, p, e) ==
    CASE m = "initialize" ->
            Quiet(Response("initialize", NoResult, <<>>, <<>>, handle_initialize))
      [] m = "tools/list" ->
            Quiet(Response("tools/list", NoResult, <<>>, handle_tools_list, NoInfo))
      [] m = "tools/call" ->
            LET c == handle_tool_call(p, e)
            IN  Outcome(IF c.raised THEN Response("raised", NoResult, c.exc, <<>>, NoInfo)
                        ELSE Response("tools/call", c.result, <<>>, <<>>, NoInfo),
                        c.invoked, c.calls, c.review, c.estimate)
      [] OTHER ->
            Quiet(Response("raised", NoResult, <<"ValueError", "Method not found: ", m>>,
                           <<>>, NoInfo))

(***************************************************************************)
(* Requests.                                                               *)
(***************************************************************************)
ToolNames == {"get_list_of_datasets_by_project_id", "get_table_schema",
              "create_custom_sql_query_to_review", "run_sql_query"}

\* tool names a client may send: the registered ones, another one, none
RequestedNames == ToolNames \cup {"drop_table", None}

OtherMethods == {"notifications/initialized", "resources/list", "tools/run"}

RECURSIVE SeqsUpTo(_, _)
SeqsUpTo(A, n) ==
    IF n = 0 THEN {<<>>}
    ELSE LET shorter == SeqsUpTo(A, n - 1)
         IN  shorter \cup {Append(t, a) : t \in shorter, a \in A}

\* argument strings that no json.dumps produced
RawTexts == SeqsUpTo({"{", "}", ":", ",", Quote("table_id")}, MaxRawLen)

\* a JSON text cut short: its last token is lost
Truncated(t) == SubSeq(t, 1, Len(t) - 1)

ArgumentValues ==
    {PyAbsent}
      \cup {PyDict(o) : o \in ArgObjects}
      \cup {PyStr(JsonDumps(o)) : o \in ArgObjects}
      \cup {PyStr(Truncated(JsonDumps(o))) : o \in ArgObjects}
      \cup {PyStr(t) : t \in RawTexts}

ParamsSet == [name : RequestedNames, arguments : ArgumentValues]

Idle ==
    /\ method = None
    /\ params = [name |-> None, arguments |-> PyAbsent]
    /\ env = QuietEnv
    /\ response = NoResponse
    /\ invoked = NotInvoked
    /\ calls = <<>>
    /\ review = NoReview
    /\ estimate = NoEstimate

\* no request has been received
Init == Idle

\* Each action is one request, handled to completion by handle_request.
Initialize ==
    /\ method = None
    /\ \E p \in ParamsSet :
          LET o == handle_request("initialize", p, QuietEnv)
          IN  /\ method' = "initialize"
              /\ params' = p
              /\ env' = QuietEnv
              /\ response' = o.response
              /\ invoked' = o.invoked
              /\ calls' = o.calls
              /\ review' = o.review
              /\ estimate' = o.estimate

ToolsList ==
    /\ method = None
    /\ \E p \in ParamsSet :
          LET o == handle_request("tools/list", p, QuietEnv)
          IN  /\ method' = "tools/list"
              /\ params' = p
              /\ env' = QuietEnv
              /\ response' = o.response
              /\ invoked' = o.invoked
              /\ calls' = o.calls
              /\ review' = o.review
              /\ estimate' = o.estimate

ToolsCall ==
    /\ method = None
    /\ \E p \in ParamsSet : \E e \in EnvFor(p.name) :
          LET o == handle_request("tools/call", p, e)
          IN  /\ method' = "tools/call"
              /\ params' = p
              /\ env' = e
              /\ response' = o.response
              /\ invoked' = o.invoked
              /\ calls' = o.calls
              /\ review' = o.review
              /\ estimate' = o.estimate

UnknownMethod ==
    /\ method = None
    /\ \E m \in OtherMethods : \E p \in ParamsSet :
          LET o == handle_request(m, p, QuietEnv)
          IN  /\ method' = m
              /\ params' = p
              /\ env' = QuietEnv
              /\ response' = o.response
              /\ invoked' = o.invoked
              /\ calls' = o.calls
              /\ review' = o.review
              /\ estimate' = o.estimate

\* the caller has taken the response (or the exception): everything the request
\* created is discarded, nothing of it outlives the request
Respond ==
    /\ method # None
    /\ method' = None
    /\ params' = [name |-> None, arguments |-> PyAbsent]
    /\ env' = QuietEnv
    /\ response' = NoResponse
    /\ invoked' = NotInvoked
    /\ calls' = <<>>
    /\ review' = NoReview
    /\ estimate' = NoEstimate

Next == Initialize \/ ToolsList \/ ToolsCall \/ UnknownMethod \/ Respond

Spec == Init /\ [][Next]_vars

(***************************************************************************)
(* Properties.                                                             *)
(***************************************************************************)
\* text contains the token sequence part, contiguously
Embeds(text, part) ==
    \E i \in 0..(Len(text) - Len(part)) : SubSeq(text, i + 1, i + Len(part)) = part

\* the token that follows label in text, or None
FieldAfter(text, label) ==
    IF \E i \in 1..(Len(text) - 1) : text[i] = label
    THEN text[(CHOOSE i \in 1..(Len(text) - 1) : text[i] = label) + 1]
    ELSE None

Made(op) == \E i \in 1..Len(calls) : calls[i].op = op

\* the request was a tools/call that handle_request answered with a ToolCallResult
Answered == method = "tools/call" /\ response.kind = "tools/call"

\* C1: a tools/call of a registered tool never lets an exception out of
\* handle_request: whatever the handler raises comes back as a Failure result.
C1_ToolErrorsContained ==
    (method = "tools/call" /\ params.name \in ToolNames)
        => response.kind = "tools/call"

\* C2: initialize, tools/list and tools/call return their result; any other
\* method raises "Method not found" naming it, and no handler or collaborator
\* is called.
C2_RouterTotal ==
    method # None
        => IF method \in {"initialize", "tools/list", "tools/call"}
           THEN response.kind = method
           ELSE /\ response.kind = "raised"
                /\ response.exc = <<"ValueError", "Method not found: ", method>>
                /\ invoked = NotInvoked
                /\ calls = <<>>

\* C3: a tools/call naming no registered tool (or no tool at all) returns a
\* result with isError and a descriptive text; nothing is raised, no handler is
\* invoked and no collaborator is called.
C3_UnknownToolIsFailure ==
    (method = "tools/call" /\ params.name \notin ToolNames)
        => /\ response.kind = "tools/call"
           /\ response.isError
           /\ response.text # <<>>
           /\ response.exc = <<>>
           /\ invoked = NotInvoked
           /\ calls = <<>>

C3_Witness ==
    /\ method = "tools/call"
    /\ params.name = "drop_table"
    /\ params.arguments = PyDict([sql_query |-> "SELECT 1", confirmation_key |-> "x"])
    /\ response.isError
    /\ response.text = <<"Tool not found: ", "drop_table">>

\* the review pipeline ran a dry run that came back INVALID or ERROR
DryRunFailed ==
    /\ method = "tools/call"
    /\ invoked.tool = "create_custom_sql_query_to_review"
    /\ Made("dry_run")
    /\ env.dry \in {"api_error", "error"}

\* C4: when the dry run of the generated SQL is INVALID or ERROR, the review
\* returns a guidance message that embeds the failed SQL, the question and the
\* table schema.
C4_GuidanceEmbedsFailedSql ==
    DryRunFailed
        => /\ Answered
           /\ review # NoReview
           /\ Embeds(review.sql_query, <<env.sql>>)
           /\ Embeds(review.sql_query, <<invoked.arguments.obj.question>>)
           /\ Embeds(review.sql_query, SchemaRepr(env.schema))

\* the status the review returns when the dry run is VALID
StatusWhenValid ==
    generate_sql_query("how many users", <<>>, "proj.ds.users",
                       [QuietEnv EXCEPT !.gemini = "candidate", !.sql = "SELECT 1"])
        .data.query.status

\* C5: the status of the GeneratedQuery tells a failed dry run from a success:
\* after an INVALID or ERROR dry run the returned status is not the status
\* returned after a VALID one.
C5_StatusDistinguishesFailure ==
    (DryRunFailed /\ review # NoReview) => review.status # StatusWhenValid

\* the message labels the SQL as validated and executable
ClaimsExecutable(text) == ValidatedNotice \in Range(text)

DryRunOf(sql) == \E i \in 1..Len(calls) : calls[i] = Call("dry_run", <<sql>>)

\* C6: a result says the SQL is validated and can be executed, with cost and
\* bytes, only if a dry run of that same SQL succeeded (VALID) earlier in the same
\* call; every VALID dry run yields a message with both cost fields; an INVALID,
\* ERROR or skipped dry run never yields a result that claims executability.
C6_ExecutableOnlyAfterValidDryRun ==
    /\ (ClaimsExecutable(review.sql_query) \/ ClaimsExecutable(response.text))
          => /\ invoked.tool = "create_custom_sql_query_to_review"
             /\ env.dry = "ok"
             /\ estimate.status = "VALID"
             /\ DryRunOf(env.sql)
             /\ calls[Len(calls)] = Call("dry_run", <<env.sql>>)
             /\ Embeds(review.sql_query, <<"Here is the generated sql query:", env.sql>>)
             /\ Embeds(response.text, review.sql_query)
    /\ (Made("dry_run") /\ env.dry = "ok")
          => /\ Answered
             /\ ClaimsExecutable(review.sql_query)
             /\ FieldAfter(review.sql_query, CostLabel) = FormatUsd(estimate.estimated_cost_usd)
             /\ FieldAfter(review.sql_query, BytesLabel) = ToString(estimate.bytes_processed)
             /\ estimate.bytes_processed = env.gib

C6_Witness ==
    /\ Answered
    /\ ClaimsExecutable(review.sql_query)
    /\ estimate.status = "VALID"
    /\ env.gib = 32
    /\ FieldAfter(response.text, CostLabel) = "0.195312"

\* C7: the review pipeline never issues a real (non-dry-run) query; a real
\* query is issued only while handling run_sql_query, and only for a call that
\* supplies confirmation_key.  (Stated for the queries the warehouse ran.)
C7_RealQueryNeedsConfirmation ==
    (Made("query") /\ Answered)
        => /\ invoked.tool = "run_sql_query"
           /\ invoked.arguments.kind = "dict"
           /\ "confirmation_key" \in DOMAIN invoked.arguments.obj

\* C8: every dry run is classified as exactly one of VALID, INVALID, ERROR and
\* the check never raises: a successful dry run is VALID with its non-negative
\* bytes_processed and the cost bytes / 2^40 * 6.25 rounded to 6 decimals (within
\* half a micro-dollar of 390625/64 micro-dollars per GiB; 2 TiB costs 12.5), a
\* warehouse API error is INVALID, any other failure is ERROR.
C8_DryRunClassification ==
    Made("dry_run")
        => /\ estimate.status \in {"VALID", "INVALID", "ERROR"}
           /\ env.dry = "ok"
                => /\ estimate.status = "VALID"
                   /\ estimate.bytes_processed = env.gib
                   /\ estimate.bytes_processed >= 0
                   /\ 2 * (64 * estimate.estimated_cost_usd - 390625 * env.gib) <= 64
                   /\ 2 * (390625 * env.gib - 64 * estimate.estimated_cost_usd) <= 64
                   /\ env.gib = 2048 => estimate.estimated_cost_usd = 12500000
           /\ env.dry = "api_error"
                => estimate.status = "INVALID" /\ "estimated_cost_usd" \notin DOMAIN estimate
           /\ env.dry = "error"
                => estimate.status = "ERROR" /\ "estimated_cost_usd" \notin DOMAIN estimate

C8_Witness ==
    /\ Made("dry_run")
    /\ env.dry = "ok"
    /\ env.gib = 2048
    /\ estimate.status = "VALID"
    /\ estimate.estimated_cost_usd = 12500000

\* what the same call yields when the arguments are the object o itself
WithObject(o) == handle_request(method, [params EXCEPT !.arguments = PyDict(o)], env)

\* argument strings that are no JSON text: a JSON text without its last token,
\* and the arbitrary strings other than {} and a lone string literal
Undecodable ==
    {Truncated(JsonDumps(o)) : o \in ArgObjects}
      \cup (RawTexts \ {<<"{", "}">>, <<Quote("table_id")>>})

\* C9: arguments sent as the JSON string of an object are decoded before
\* dispatch: the same handler is invoked with the same arguments and the call
\* has the same result as with the object itself; a string that does not decode
\* yields a Failure result, raises nothing and invokes no handler.
C9_StringArgumentsDecoded ==
    (method = "tools/call" /\ params.arguments.kind = "str")
        => /\ \A o \in ArgObjects :
                params.arguments.text = JsonDumps(o)
                    => /\ response = WithObject(o).response
                       /\ invoked = WithObject(o).invoked
                       /\ calls = WithObject(o).calls
                       /\ review = WithObject(o).review
                       /\ params.name \in ToolNames
                              => invoked = Invoked(params.name, PyDict(o))
           /\ params.arguments.text \in Undecodable
                => /\ response.kind = "tools/call"
                   /\ response.isError
                   /\ response.text # <<>>
                   /\ invoked = NotInvoked
                   /\ calls = <<>>

C9_Witness ==
    /\ method = "tools/call"
    /\ params.name = "run_sql_query"
    /\ params.arguments =
          PyStr(<<"{", "\"sql_query\"", ":", "\"SELECT 1\"", ",",
                  "\"confirmation_key\"", ":", "\"x\"", "}">>)
    /\ invoked = Invoked("run_sql_query",
                         PyDict([sql_query |-> "SELECT 1", confirmation_key |-> "x"]))
    /\ Answered
    /\ ~response.isError
    /\ calls = <<Call("query", <<"SELECT 1">>)>>

\* the required list tools/list declares for a tool
DeclaredRequired(tool) ==
    UNION {Range(handle_tools_list[i].required) :
              i \in {j \in 1..Len(handle_tools_list) : handle_tools_list[j].name = tool}}

\* C10: tools/list returns exactly four descriptors, named as the tools
\* handle_tool_call dispatches; each has additionalProperties false and a
\* non-empty required list, and that list is what the handler requires: a call
\* that leaves out a listed argument does not succeed.
C10_DescriptorsMatchHandlers ==
    /\ method = "tools/list"
          => /\ Len(response.tools) = 4
             /\ {response.tools[i].name : i \in 1..Len(response.tools)} = ToolNames
             /\ \A i \in 1..Len(response.tools) :
                   /\ response.tools[i].additionalProperties = FALSE
                   /\ response.tools[i].required # <<>>
    /\ method = "tools/call"
          => /\ invoked.tool # "<none>" => DeclaredRequired(invoked.tool) # {}
             /\ (params.name \in ToolNames /\ params.arguments.kind # "str")
                   => invoked.tool = params.name
             /\ (Answered /\ ~response.isError /\ invoked.arguments.kind = "dict")
                   => DeclaredRequired(invoked.tool) \subseteq DOMAIN invoked.arguments.obj

\* the datasets tool listed the datasets of a project that has some
DatasetsListed ==
    /\ method = "tools/call"
    /\ invoked.tool = "get_list_of_datasets_by_project_id"
    /\ env.datasets_ok
    /\ env.datasets # <<>>

\* where the heading of the i-th dataset stands in the report
HeadingAt(i) ==
    CHOOSE k \in 1..(Len(response.text) - 1) :
        response.text[k] = "\nDataset: " /\ response.text[k + 1] = DatasetId(i)

\* where the report's closing paragraph starts
ClosingAt ==
    CHOOSE k \in 1..Len(response.text) :
        response.text[k] = "Important: It is important that you reference this project_id ("

\* what the report holds under the i-th heading, line breaks left out
SectionOf(i) ==
    LET to == IF i < Len(env.datasets) THEN HeadingAt(i + 1) ELSE ClosingAt
    IN  SelectSeq(SubSeq(response.text, HeadingAt(i) + 2, to - 1), LAMBDA tok : tok # "\n")

\* what the i-th dataset is to contribute
ContributionOf(i) ==
    LET n == env.datasets[i].tables
    IN  IF n = ListingFails THEN <<"   [Error listing tables: ", "<e>", "]">>
        ELSE IF n = 0 THEN <<"   (No tables in this dataset)">>
        ELSE Flatten([j \in 1..n |-> <<"   Table: ", TableId(j)>>])

\* C11: whichever datasets fail to list their tables, the enumeration visits
\* every dataset in order and returns the full report, not an error: a failing
\* dataset contributes only the inline error annotation under its own heading,
\* every other dataset its table lines (or the no-tables line).
C11_ListingFailureIsLocal ==
    DatasetsListed
        => /\ Answered
           /\ ~response.isError
           /\ response.text[1] # "Error accessing project '"
           /\ calls = <<Call("list_datasets", <<project_id>>)>>
                         \o [i \in 1..Len(env.datasets) |->
                                Call("list_tables", <<DatasetId(i)>>)]
           /\ \A i \in 1..Len(env.datasets) :
                 /\ \E k \in 1..(Len(response.text) - 1) :
                       response.text[k] = "\nDataset: " /\ response.text[k + 1] = DatasetId(i)
                 /\ i < Len(env.datasets) => HeadingAt(i) < HeadingAt(i + 1)
                 /\ HeadingAt(i) < ClosingAt
                 /\ SectionOf(i) = ContributionOf(i)

C11_Witness ==
    /\ DatasetsListed
    /\ Len(env.datasets) = 2
    /\ env.datasets[1].tables = ListingFails
    /\ env.datasets[2].tables = 1
    /\ Answered
    /\ Embeds(response.text, <<"\nDataset: ", "dataset_1", "\n", "   [Error listing tables: ",
                                "<e>", "]", "\n", "\nDataset: ", "dataset_2", "\n",
                                "   Table: ", "table_1">>)

\* C12: in a review call whose question or table_id is missing, or without the
\* text-generation credential, the configuration failure is raised before any
\* network call: no metadata fetch, no generation request, no dry run precedes it.
C12_ConfigurationFailureFirst ==
    (/\ method = "tools/call"
     /\ invoked.tool = "create_custom_sql_query_to_review"
     /\ response.kind = "raised"
     /\ response.exc[1] = "ValueError")
        => calls = <<>>

====
